---- MODULE Spec2Model ----
(***************************************************************************)
(* Route optimisation core of Lab-12/Task_3.py: the geometry helpers, the  *)
(* greedy nearest-neighbour optimizer and the genetic algorithm.           *)
(*                                                                         *)
(* Node indices are the program's (0-based); a Python list is a TLA+       *)
(* sequence, so the element at Python index i is seq[i + 1].               *)
(* Coordinates are integer points; euclidean_distance is the integer       *)
(* square root of the squared distance.  It is exact on every pair of      *)
(* GridPoints (distances 0, 3, 4 and 5); on the 10 x 10 square the         *)
(* diagonal sqrt(200) is rounded down to 14.                               *)
(* Python exceptions are the values of the variable fault.                 *)
(***************************************************************************)
EXTENDS Integers, Sequences, FiniteSets, TLC

VARIABLES
    coordinates,      \* the coordinate list handed to the operation
    population_size,  \* genetic_algorithm parameter
    generations,      \* genetic_algorithm parameter
    mutation_rate,    \* genetic_algorithm parameter, in hundredths
    population,       \* genetic_algorithm local
    generation,       \* loop index of "for generation in range(generations)"
    best_individual,  \* value returned by genetic_algorithm
    current_node,     \* greedy_route_optimizer local
    unvisited,        \* greedy_route_optimizer local
    route,            \* greedy_route_optimizer local / calculate_total_distance argument
    distance,         \* value returned by calculate_total_distance
    parent1,          \* crossover argument
    parent2,          \* crossover argument
    start,            \* crossover local
    end,              \* crossover local
    child,            \* value returned by crossover
    fault,            \* the exception that left the operation, or "none"
    pc                \* position in the running operation

vars == <<coordinates, population_size, generations, mutation_rate, population,
          generation, best_individual,
          current_node, unvisited, route, distance, parent1, parent2, start,
          end, child, fault, pc>>

gaVars == <<population_size, generations, mutation_rate, population, generation,
            best_individual>>
greedyVars == <<current_node, unvisited>>
crossoverVars == <<parent1, parent2, start, end, child>>

----------------------------------------------------------------------------
(* Bounds of the exploration *)

\* longest coordinate list given to the greedy optimizer and to calculate_total_distance
MaxNodes == 3
\* longest parents given to crossover on its own
MaxParentLen == 3
\* most children bred in one run: population_size * generations
MaxChildren == 5
\* most node entries in one population: population_size * number of sensors
MaxGenes == 9

\* the value of a variable not yet assigned
None == "None"

GridPoints == {<<0, 0>>, <<3, 0>>, <<3, 4>>, <<0, 4>>}

\* the rectangle 3 x 4: closed tours of length 14, 16 and 18
Rectangle == << <<0, 0>>, <<3, 0>>, <<3, 4>>, <<0, 4>> >>
\* the square of the documented scenario
Square == << <<0, 0>>, <<10, 0>>, <<10, 10>>, <<0, 10>> >>

SeqsUpTo(S, n) == UNION {[1..k -> S] : k \in 0..n}

----------------------------------------------------------------------------
(* Python list helpers *)

Range(s) == {s[i] : i \in 1..Len(s)}

\* s[a:b] for 0 <= a <= b <= len(s)
Slice(s, a, b) == [i \in 1..(b - a) |-> s[a + i]]

\* a remove that drops the last element whatever x is
Remove_last(s, x) == [k \in 1..(Len(s) - 1) |-> s[k]]

\* list.remove(x): drops the first occurrence of x
Remove(s, x) ==
    LET i == CHOOSE k \in 1..Len(s) : s[k] = x /\ \A j \in 1..(k - 1) : s[j] # x
    IN  [k \in 1..(Len(s) - 1) |-> IF k < i THEN s[k] ELSE s[k + 1]]

\* list(range(n)) shuffled: any ordering of 0..n-1
Shuffles(n) == {p \in [1..n -> 0..(n - 1)] : \A i, j \in 1..n : p[i] = p[j] => i = j}

IsPermutation(s, n) ==
    /\ Len(s) = n
    /\ \A v \in 0..(n - 1) : Cardinality({i \in 1..Len(s) : s[i] = v}) = 1

----------------------------------------------------------------------------
(* Geometry helpers *)

\* math.sqrt on the squared distances that occur
Sqrt(n) == CHOOSE r \in 0..n : r * r <= n /\ n < (r + 1) * (r + 1)

euclidean_distance(p1, p2) ==
    Sqrt((p1[1] - p2[1]) * (p1[1] - p2[1]) + (p1[2] - p2[2]) * (p1[2] - p2[2]))

\* the for loop of calculate_total_distance, i = 0 .. len(route) - 2
RECURSIVE ConsecutiveSum(_, _, _)
ConsecutiveSum(r, coords, i) ==
    IF i > Len(r) - 2 THEN 0
    ELSE euclidean_distance(coords[r[i + 1] + 1], coords[r[i + 2] + 1])
         + ConsecutiveSum(r, coords, i + 1)

\* a total distance that leaves the way back to the first node out
calculate_total_distance_open(r, coords) ==
    IF Len(r) < 2 THEN 0 ELSE ConsecutiveSum(r, coords, 0)

calculate_total_distance(r, coords) ==
    IF Len(r) < 2 THEN 0
    ELSE ConsecutiveSum(r, coords, 0)
         + euclidean_distance(coords[r[Len(r)] + 1], coords[r[1] + 1])

----------------------------------------------------------------------------
(* genetic_algorithm: nested functions *)

num_sensors == Len(coordinates)

\* random.random() in hundredths: a value of [0, 1)
RandomValues == {0, 50, 99}

\* 1 / calculate_total_distance(individual, coordinates) raises ZeroDivisionError
fitness_raises(individual) == calculate_total_distance(individual, coordinates) = 0

\* the quotient 1 / d, kept as a fraction
fitness(individual) ==
    [num |-> 1, den |-> calculate_total_distance(individual, coordinates)]

\* a < b on two fitness values with positive denominators
FitnessLess(a, b) == a.num * b.den < b.num * a.den

\* the loop that fills the -1 positions of child from remaining
RECURSIVE FillChild(_, _, _, _)
FillChild(c, remaining, i, current_pos) ==
    IF i >= Len(c) THEN c
    ELSE IF c[i + 1] = -1
         THEN FillChild([c EXCEPT ![i + 1] = remaining[current_pos + 1]],
                        remaining, i + 1, current_pos + 1)
         ELSE FillChild(c, remaining, i + 1, current_pos)

\* a crossover that fills from parent2 without leaving out the copied nodes
crossover_unfiltered(p1, p2, s, e) ==
    LET copied == [i \in 1..num_sensors |-> IF s < i /\ i <= e THEN p1[i] ELSE -1]
    IN  FillChild(copied, p2, 0, 0)

\* crossover(parent1, parent2) with the two random.randint results s and e
crossover(p1, p2, s, e) ==
    LET blank    == [i \in 1..num_sensors |-> -1]
        copied   == [i \in 1..num_sensors |->
                        IF s < i /\ i <= e THEN p1[i] ELSE blank[i]]
        InSlice(item) == item \notin Range(Slice(copied, s, e))
        remaining == SelectSeq(p2, InSlice)
    IN  FillChild(copied, remaining, 0, 0)

\* a mutate that copies one position over the other instead of swapping
mutate_overwrite(individual, rate, r, idx1, idx2) ==
    IF r < rate
    THEN [individual EXCEPT ![idx1 + 1] = individual[idx2 + 1]]
    ELSE individual

\* mutate(individual, rate) with random.random() = r and random.sample = idx1, idx2
mutate(individual, rate, r, idx1, idx2) ==
    IF r < rate
    THEN [individual EXCEPT ![idx1 + 1] = individual[idx2 + 1],
                            ![idx2 + 1] = individual[idx1 + 1]]
    ELSE individual

\* int(population_size * 0.1): truncation towards zero
elite_size(size) == IF size >= 0 THEN size \div 10 ELSE -((-size) \div 10)

\* sorted(pop, key=fitness, reverse=True): stable, equal keys keep their order
SortedByFitness(pop) ==
    LET key(i)  == fitness(pop[i])
        rank(i) == Cardinality({j \in 1..Len(pop) : FitnessLess(key(i), key(j))})
                   + Cardinality({j \in 1..(i - 1) :
                         ~FitnessLess(key(i), key(j)) /\ ~FitnessLess(key(j), key(i))})
                   + 1
    IN  [k \in 1..Len(pop) |-> pop[CHOOSE i \in 1..Len(pop) : rank(i) = k]]

\* a min in the place of the max: the first individual of least fitness
MinByFitness(pop) ==
    LET key(i) == fitness(pop[i])
        worst  == CHOOSE i \in 1..Len(pop) :
                      /\ \A j \in 1..Len(pop) : ~FitnessLess(key(j), key(i))
                      /\ \A j \in 1..(i - 1) : FitnessLess(key(i), key(j))
    IN  pop[worst]

\* max(pop, key=fitness): the first individual of greatest fitness
MaxByFitness(pop) ==
    LET key(i) == fitness(pop[i])
        best   == CHOOSE i \in 1..Len(pop) :
                      /\ \A j \in 1..Len(pop) : ~FitnessLess(key(i), key(j))
                      /\ \A j \in 1..(i - 1) : FitnessLess(key(j), key(i))
    IN  pop[best]

\* the results random.choices(pop, weights=fitnesses, k=population_size) can have:
\* every weight is positive, so every individual can be drawn at every place
WeightedChoices(pop) == [1..population_size -> Range(pop)]

\* start = random.randint(0, n - 1), end = random.randint(start + 1, n)
SliceBounds(n) == {se \in (0..(n - 1)) \X (1..n) : se[1] < se[2]}

\* idx1, idx2 = random.sample(range(n), 2)
SamplePairs(n) == {ij \in (0..(n - 1)) \X (0..(n - 1)) : ij[1] # ij[2]}

\* the children crossover can build from two parents drawn from weighted_choices
Crossovers(weighted_choices) ==
    {crossover(p1, p2, se[1], se[2]) :
        p1 \in Range(weighted_choices), p2 \in Range(weighted_choices),
        se \in SliceBounds(num_sensors)}

\* what mutate(child, mutation_rate) can return
Mutations(c) ==
    {mutate(c, mutation_rate, r, 0, 0) : r \in {x \in RandomValues : ~(x < mutation_rate)}}
    \cup {mutate(c, mutation_rate, r, ij[1], ij[2]) :
            r \in {x \in RandomValues : x < mutation_rate},
            ij \in SamplePairs(num_sensors)}

\* the children one pass of the while loop can append
Children(weighted_choices) ==
    UNION {Mutations(c) : c \in Crossovers(weighted_choices)}

\* next_generation when the while loop ends: the elite, then the children
NextGenerations(pop) ==
    LET elite == Slice(SortedByFitness(pop), 0, elite_size(population_size))
        bred  == IF population_size > Len(elite)
                 THEN population_size - Len(elite) ELSE 0
    IN  UNION { {elite \o kids : kids \in [1..bred -> Children(wc)]} :
                  wc \in WeightedChoices(pop) }

\* the while loop raises: randint on an empty range (no sensors), or
\* random.sample of two out of fewer than two positions when the child mutates
BreedRaises ==
    /\ population_size > elite_size(population_size)
    /\ \/ num_sensors = 0
       \/ num_sensors = 1 /\ \E r \in RandomValues : r < mutation_rate

BreedReturns ==
    \/ population_size <= elite_size(population_size)
    \/ num_sensors >= 2
    \/ num_sensors = 1 /\ \E r \in RandomValues : ~(r < mutation_rate)

----------------------------------------------------------------------------
(* genetic_algorithm: the run *)

Origin == <<0, 0>>

\* coordinate lists given to genetic_algorithm: none, one point, two coincident
\* points, two distinct points, a 3-4-5 triangle, the rectangle
GACoordinates ==
    { <<>>,
      <<Origin>>,
      <<Origin, Origin>>,
      <<Origin, <<3, 0>>>>,
      <<Origin, <<3, 0>>, <<3, 4>>>>,
      Rectangle }

PopulationSizes == {-1, 0, 1, 2, 3}
MutationRates == {-50, 0, 50, 100}

GAIdle ==
    /\ population_size = None
    /\ generations = None
    /\ mutation_rate = None
    /\ population = <<>>
    /\ generation = 0
    /\ best_individual = None

GreedyIdle ==
    /\ current_node = None
    /\ unvisited = <<>>

CrossoverIdle ==
    /\ parent1 = <<>>
    /\ parent2 = <<>>
    /\ start = None
    /\ end = None
    /\ child = <<>>

GAInit ==
    /\ coordinates \in GACoordinates
    /\ population_size \in PopulationSizes
    /\ generations \in -1..MaxChildren
    /\ population_size * generations <= MaxChildren
    /\ population_size * Len(coordinates) <= MaxGenes
    /\ mutation_rate \in MutationRates
    /\ population = <<>>
    /\ generation = 0
    /\ best_individual = None
    /\ GreedyIdle
    /\ CrossoverIdle
    /\ route = <<>>
    /\ distance = None
    /\ fault = "none"
    /\ pc = "ga_start"

\* lines 85-118: population = create_population(population_size)
GA_create_population ==
    /\ pc = "ga_start"
    /\ population' \in [1..population_size -> Shuffles(num_sensors)]
    /\ pc' = "ga_loop"
    /\ UNCHANGED <<coordinates, population_size, generations, mutation_rate,
                   generation, best_individual,
                   greedyVars, route, distance, crossoverVars, fault>>

\* lines 120-135: one pass of the for loop: fitnesses, the weighted pool, the
\* elite, the children, and the next generation replacing the population
GA_generation ==
    /\ pc = "ga_loop"
    /\ generation < generations
    /\ IF \E i \in 1..Len(population) : fitness_raises(population[i])
       THEN /\ fault' = "ZeroDivisionError"
            /\ pc' = "ga_fault"
            /\ UNCHANGED <<population, generation>>
       ELSE IF population = <<>>
       THEN /\ fault' = "IndexError"
            /\ pc' = "ga_fault"
            /\ UNCHANGED <<population, generation>>
       ELSE \/ /\ BreedRaises
               /\ fault' = "ValueError"
               /\ pc' = "ga_fault"
               /\ UNCHANGED <<population, generation>>
            \/ /\ BreedReturns
               /\ population' \in NextGenerations(population)
               /\ generation' = generation + 1
               /\ UNCHANGED <<fault, pc>>
    /\ UNCHANGED <<coordinates, population_size, generations, mutation_rate,
                   best_individual,
                   greedyVars, route, distance, crossoverVars>>

\* lines 137-138: best_individual = max(population, key=fitness); return
GA_return ==
    /\ pc = "ga_loop"
    /\ generation >= generations
    /\ IF population = <<>>
       THEN /\ fault' = "ValueError"
            /\ pc' = "ga_fault"
            /\ UNCHANGED best_individual
       ELSE IF \E i \in 1..Len(population) : fitness_raises(population[i])
       THEN /\ fault' = "ZeroDivisionError"
            /\ pc' = "ga_fault"
            /\ UNCHANGED best_individual
       ELSE /\ best_individual' = MaxByFitness(population)
            /\ pc' = "ga_done"
            /\ UNCHANGED fault
    /\ UNCHANGED <<coordinates, population_size, generations, mutation_rate,
                   population, generation,
                   greedyVars, route, distance, crossoverVars>>

GANext == GA_create_population \/ GA_generation \/ GA_return

Spec == GAInit /\ [][GANext]_vars

----------------------------------------------------------------------------
(* greedy_route_optimizer *)

\* nearest_node = None, as a node index no sensor has
NoNode == -1
\* float('inf'), as a distance no two points have
Infinity == -1

\* a comparison that lets a later node at the same distance win
DistLessEq(dist, min_distance) == min_distance = Infinity \/ dist <= min_distance

\* dist < min_distance, min_distance starting at float('inf')
DistLess(dist, min_distance) == min_distance = Infinity \/ dist < min_distance

\* the for loop over unvisited, from its k-th element on
RECURSIVE NearestScan(_, _, _, _, _)
NearestScan(unv, k, current, nearest_node, min_distance) ==
    IF k > Len(unv) THEN nearest_node
    ELSE LET neighbor == unv[k]
             dist == euclidean_distance(coordinates[current + 1],
                                        coordinates[neighbor + 1])
         IN  IF DistLess(dist, min_distance)
             THEN NearestScan(unv, k + 1, current, neighbor, dist)
             ELSE NearestScan(unv, k + 1, current, nearest_node, min_distance)

\* list(range(1, n))
RangeFromOne(n) == [i \in 1..(n - 1) |-> i]

GreedyCoordinates == SeqsUpTo(GridPoints, MaxNodes) \cup {Rectangle, Square}

GreedyInit ==
    /\ coordinates \in GreedyCoordinates
    /\ GAIdle
    /\ GreedyIdle
    /\ CrossoverIdle
    /\ route = <<>>
    /\ distance = None
    /\ fault = "none"
    /\ pc = "greedy_start"

\* lines 58-62
greedy_start ==
    /\ pc = "greedy_start"
    /\ current_node' = 0
    /\ unvisited' = RangeFromOne(num_sensors)
    /\ route' = <<0>>
    /\ pc' = "greedy_loop"
    /\ UNCHANGED <<coordinates, gaVars, distance, crossoverVars, fault>>

\* lines 64-76: one pass of the while loop
greedy_visit ==
    /\ pc = "greedy_loop"
    /\ unvisited # <<>>
    /\ LET nearest_node == NearestScan(unvisited, 1, current_node, NoNode, Infinity)
       IN  IF nearest_node # NoNode
           THEN /\ route' = Append(route, nearest_node)
                /\ unvisited' = Remove(unvisited, nearest_node)
                /\ current_node' = nearest_node
                /\ UNCHANGED <<fault, pc>>
           ELSE \* unvisited.remove(None)
                /\ route' = Append(route, nearest_node)
                /\ fault' = "ValueError"
                /\ pc' = "greedy_fault"
                /\ UNCHANGED <<unvisited, current_node>>
    /\ UNCHANGED <<coordinates, gaVars, distance, crossoverVars>>

\* line 78
greedy_return ==
    /\ pc = "greedy_loop"
    /\ unvisited = <<>>
    /\ pc' = "greedy_done"
    /\ UNCHANGED <<coordinates, gaVars, greedyVars, route, distance,
                   crossoverVars, fault>>

GreedyNext == greedy_start \/ greedy_visit \/ greedy_return

SpecGreedy == GreedyInit /\ [][GreedyNext]_vars

----------------------------------------------------------------------------
(* crossover on its own *)

\* n sensors on a line, 3 apart
LineCoordinates(n) == [i \in 1..n |-> <<3 * (i - 1), 0>>]

CrossoverInit ==
    /\ \E n \in 1..MaxParentLen :
         /\ coordinates = LineCoordinates(n)
         /\ parent1 \in Shuffles(n)
         /\ parent2 \in Shuffles(n)
    /\ start = None
    /\ end = None
    /\ child = <<>>
    /\ GAIdle
    /\ GreedyIdle
    /\ route = <<>>
    /\ distance = None
    /\ fault = "none"
    /\ pc = "crossover_call"

\* lines 98-110
crossover_call ==
    /\ pc = "crossover_call"
    /\ \E se \in SliceBounds(num_sensors) :
         /\ start' = se[1]
         /\ end' = se[2]
         /\ child' = crossover(parent1, parent2, se[1], se[2])
    /\ pc' = "crossover_done"
    /\ UNCHANGED <<coordinates, gaVars, greedyVars, route, distance,
                   parent1, parent2, fault>>

SpecCrossover == CrossoverInit /\ [][crossover_call]_vars

----------------------------------------------------------------------------
(* calculate_total_distance on its own *)

\* any list of node indices of the coordinate list, repeats allowed
RoutesOver(n) == SeqsUpTo(0..(n - 1), MaxNodes)

DistanceInit ==
    /\ coordinates \in SeqsUpTo(GridPoints, MaxNodes)
    /\ route \in RoutesOver(Len(coordinates))
    /\ distance = None
    /\ GAIdle
    /\ GreedyIdle
    /\ CrossoverIdle
    /\ fault = "none"
    /\ pc = "distance_call"

\* lines 14-29
distance_call ==
    /\ pc = "distance_call"
    /\ distance' = calculate_total_distance(route, coordinates)
    /\ pc' = "distance_done"
    /\ UNCHANGED <<coordinates, gaVars, greedyVars, route, crossoverVars, fault>>

SpecDistance == DistanceInit /\ [][distance_call]_vars

----------------------------------------------------------------------------
(* Properties *)

\* the sum of the edges of the closed tour r, edge i going from r[i] to its
\* cyclic successor
RECURSIVE ClosedTourEdges(_, _, _)
ClosedTourEdges(r, coords, n) ==
    IF n = 0 THEN 0
    ELSE euclidean_distance(coords[r[n] + 1], coords[r[(n % Len(r)) + 1] + 1])
         + ClosedTourEdges(r, coords, n - 1)

\* C1: in genetic_algorithm with at least two sensors, a population of at
\* least two and generations >= 0, every individual of every population is a
\* permutation of 0..N-1, the population has population_size individuals, and
\* the returned route is a permutation of 0..N-1 too.
GAIndividualsArePermutations ==
    (num_sensors >= 2 /\ population_size >= 2 /\ generations >= 0) =>
        /\ \A i \in 1..Len(population) : IsPermutation(population[i], num_sensors)
        /\ pc # "ga_start" => Len(population) = population_size
        /\ pc = "ga_done" => IsPermutation(best_individual, num_sensors)

GAEvolvedRouteReturned ==
    /\ pc = "ga_done"
    /\ num_sensors = 4
    /\ population_size = 2
    /\ generation = 2
    /\ mutation_rate = 50
    /\ population[1] # population[2]
    /\ IsPermutation(best_individual, 4)

\* C2: greedy_route_optimizer on at least one node: while it runs, route and
\* unvisited are disjoint, have no repeats and together hold exactly 0..N-1,
\* and route begins with node 0; it always can take its next step until it
\* returns, and it returns a route of length N holding every index once.
GreedyRouteCoversEveryNode ==
    (num_sensors >= 1 /\ pc # "greedy_start") =>
        /\ Range(route) \cap Range(unvisited) = {}
        /\ Range(route) \cup Range(unvisited) = 0..(num_sensors - 1)
        /\ Len(route) + Len(unvisited) = num_sensors
        /\ route[1] = 0
        /\ fault = "none"
        /\ pc = "greedy_done" \/ ENABLED GreedyNext
        /\ pc = "greedy_done" =>
              /\ Len(route) = num_sensors
              /\ IsPermutation(route, num_sensors)

GreedyRouteReturned ==
    /\ pc = "greedy_done"
    /\ num_sensors = 3
    /\ route = <<0, 2, 1>>

\* C4: the child of crossover has parent1's nodes at positions start..end-1
\* and, on the other positions from left to right, parent2's nodes that are not
\* in that slice, in parent2's order; it is a permutation of 0..N-1.
CrossoverChildIsOrdered ==
    pc = "crossover_done" =>
        LET inside  == {i \in 1..num_sensors : start < i /\ i <= end}
            taken   == {parent1[i] : i \in inside}
            Free(i) == i \notin inside
            Left(v) == v \notin taken
            places  == SelectSeq([i \in 1..num_sensors |-> i], Free)
            fill    == SelectSeq(parent2, Left)
        IN  /\ \A i \in inside : child[i] = parent1[i]
            /\ Len(places) = Len(fill)
            /\ \A k \in 1..Len(places) : child[places[k]] = fill[k]
            /\ IsPermutation(child, num_sensors)
            /\ -1 \notin Range(child)

CrossoverMixesParents ==
    /\ pc = "crossover_done"
    /\ num_sensors = 3
    /\ end - start = 1
    /\ child # parent1
    /\ child # parent2

\* C5: every node of the greedy route after the first is, among the nodes not
\* yet in the route, one at the least distance from the node before it, and the
\* lowest index among those at that distance; on the square
\* (0,0),(10,0),(10,10),(0,10) the route is 0,1,2,3 and its tour length is 40.
GreedyPicksNearestLowestIndex ==
    pc \in {"greedy_loop", "greedy_done"} =>
        /\ \A k \in 2..Len(route) :
              LET before == {route[j] : j \in 1..(k - 1)}
                  open   == (0..(num_sensors - 1)) \ before
                  D(m)   == euclidean_distance(coordinates[route[k - 1] + 1],
                                               coordinates[m + 1])
              IN  /\ route[k] \in open
                  /\ \A m \in open : D(route[k]) <= D(m)
                  /\ \A m \in open : D(m) = D(route[k]) => route[k] <= m
        /\ (pc = "greedy_done" /\ coordinates = Square) =>
              /\ route = <<0, 1, 2, 3>>
              /\ calculate_total_distance(route, coordinates) = 40

GreedySquareRoute ==
    /\ pc = "greedy_done"
    /\ coordinates = Square
    /\ route = <<0, 1, 2, 3>>

\* C10: calculate_total_distance returns 0 for a route shorter than two nodes,
\* and otherwise the sum of the distances between consecutive route nodes plus
\* the distance from the last node back to the first, counted once; the result
\* is never negative, and the call changes neither route nor coordinates.
TotalDistanceIsClosedTour ==
    /\ [](pc = "distance_done" =>
            /\ distance = IF Len(route) < 2 THEN 0
                          ELSE ClosedTourEdges(route, coordinates, Len(route))
            /\ distance >= 0)
    /\ [][route' = route /\ coordinates' = coordinates]_vars

TotalDistanceOfTriangle ==
    /\ pc = "distance_done"
    /\ route = <<0, 1, 2>>
    /\ coordinates = << <<0, 0>>, <<3, 0>>, <<3, 4>> >>
    /\ distance = 12

\* parameters within the documented bounds of genetic_algorithm
ValidGAParameters ==
    /\ population_size >= 1
    /\ generations >= 0
    /\ mutation_rate \in 0..100

\* the greatest fitness in a population
BestFitness(pop) == fitness(MaxByFitness(pop))

\* C3: with a population of at least two, the best fitness of the population
\* after a generation is never below the best fitness of the population before it.
GABestFitnessNeverDrops ==
    [][(ValidGAParameters /\ population_size >= 2
          /\ generation' = generation + 1) =>
          ~FitnessLess(BestFitness(population'), BestFitness(population))]_vars

\* the route of no node, or of the single node 0
TrivialRoute == [i \in 1..num_sensors |-> i - 1]

\* C6: with no sensor or one sensor, the greedy optimizer and the genetic
\* algorithm (population_size >= 2, generations >= 0, mutation_rate in [0, 1])
\* raise nothing and return the trivial route, whose tour length is 0.
DegenerateSizesReturnTrivialRoute ==
    /\ (pc \in {"ga_loop", "ga_done", "ga_fault"} /\ num_sensors <= 1
           /\ population_size >= 2 /\ generations >= 0
           /\ mutation_rate \in 0..100) =>
          /\ fault = "none"
          /\ pc = "ga_done" =>
                /\ best_individual = TrivialRoute
                /\ calculate_total_distance(best_individual, coordinates) = 0
    /\ (pc \in {"greedy_loop", "greedy_done", "greedy_fault"} /\ num_sensors <= 1) =>
          /\ fault = "none"
          /\ pc = "greedy_done" =>
                /\ route = TrivialRoute
                /\ calculate_total_distance(route, coordinates) = 0

\* C7: with parameters within their bounds, an individual of tour length 0
\* gets a finite sentinel fitness: genetic_algorithm never ends in a division
\* fault.
GANeverRaisesDivisionFault ==
    ValidGAParameters => fault # "ZeroDivisionError"

\* C8: with population_size = 1 and generations = 5 on at least two sensors
\* (mutation_rate in [0, 1]) no step changes the population, and the returned
\* route has the tour length of the sole individual.
GASoleIndividualNeverChanges ==
    [][(pc = "ga_loop" /\ population_size = 1 /\ generations = 5
          /\ num_sensors >= 2 /\ mutation_rate \in 0..100) =>
          /\ population' = population
          /\ pc' = "ga_done" =>
                calculate_total_distance(best_individual', coordinates)
                    = calculate_total_distance(population[1], coordinates)]_vars

\* what the documented bounds of genetic_algorithm exclude
InvalidGAInput == num_sensors = 0 \/ ~ValidGAParameters

\* C9: genetic_algorithm given invalid input stops at its entry with an
\* InvalidInput error: it creates no population, runs no step, raises no other
\* fault and returns nothing.
GAInvalidInputRejectedAtEntry ==
    InvalidGAInput =>
        \/ pc = "ga_start"
        \/ pc = "ga_fault" /\ fault = "InvalidInput" /\ population = <<>>
           /\ generation = 0

\* C11: genetic_algorithm (generations >= 0) returns after exactly
\* `generations` passes of its loop; the returned individual is one of the
\* final population and no individual of that population has a shorter tour.
\* With generations = 0 the final population is the initial one.
GAReturnsBestOfFinalPopulation ==
    (pc = "ga_done" /\ generations >= 0) =>
        /\ generation = generations
        /\ \E i \in 1..Len(population) : population[i] = best_individual
        /\ \A i \in 1..Len(population) :
              calculate_total_distance(best_individual, coordinates)
                  <= calculate_total_distance(population[i], coordinates)

GABestIsNotFirstIndividual ==
    /\ pc = "ga_done"
    /\ generations = 2
    /\ generation = 2
    /\ coordinates = Rectangle
    /\ population_size = 2
    /\ best_individual = population[2]
    /\ calculate_total_distance(population[2], coordinates)
           < calculate_total_distance(population[1], coordinates)

\* ceil(size * 0.1), the documented number of elite individuals
CeilTenth(size) == (size + 9) \div 10

\* C12: a pass of the loop (parameters within their bounds) puts exactly
\* ceil(population_size * 0.1) individuals of the population, the top ones by
\* fitness, unmodified at the head of the next generation, and fills the next
\* generation with children up to exactly population_size individuals.
GAEliteCopiedUnmodified ==
    [][(ValidGAParameters /\ generation' = generation + 1) =>
          /\ Len(population') = population_size
          /\ \A k \in 1..CeilTenth(population_size) :
                /\ \E i \in 1..Len(population) : population[i] = population'[k]
                /\ fitness(population'[k])
                       = fitness(SortedByFitness(population)[k])]_vars

====
